---- MODULE Spec2Model ----
(***************************************************************************)
(* Model of the web-login command of salesforcedx-vscode-core:             *)
(* AuthParamsGatherer, the two command builders, the demo-mode executor    *)
(* and the commandlet that sequences them (commands/forceAuthWebLogin.ts). *)
(*                                                                         *)
(* A JavaScript string is a sequence of lexemes, so that the empty string  *)
(* is <<>>, concatenation is \o and the URL regular expression is          *)
(* evaluated by scanning the sequence.  undefined and null are sequences   *)
(* of one lexeme that no string contains.                                  *)
(***************************************************************************)
EXTENDS Naturals, Sequences, FiniteSets

\* ------------------------------------------------------------------ bounds
\* longest URL the user types into the custom-URL input box, in lexemes
MaxUrlLen == 3

\* --------------------------------------------------------------- JS values
undefined == <<"undefined">>
null == <<"null">>
Str(s) == <<s>>
Truthy(v) == v # undefined /\ v # null /\ v # <<>>
\* a || b
Or(a, b) == IF Truthy(a) THEN a ELSE b

UrlLexemes == {"http", "s", "://"}
RECURSIVE StringsUpTo(_)
StringsUpTo(n) ==
  IF n = 0 THEN {<<>>}
  ELSE LET shorter == StringsUpTo(n - 1)
       IN shorter \cup {Append(s, c) : s \in {t \in shorter : Len(t) = n - 1}, c \in UrlLexemes}
\* what the user can type into the custom-URL input box
UrlInputs == StringsUpTo(MaxUrlLen)
\* what the user can type into the alias input box
AliasInputs == {<<>>, Str("testAlias"), <<"my", "Org">>}

\* --------------------------------------------------------------- constants
DEFAULT_ALIAS == Str("vscodeOrg")
PRODUCTION_URL == <<"http", "s", "://", "login.salesforce.com">>
SANDBOX_URL == <<"http", "s", "://", "test.salesforce.com">>

\* nls.localize for the keys the module uses (labels as the tests fix them)
localize(key) ==
  CASE key = "auth_project_label" -> Str("Project Default")
    [] key = "auth_prod_label" -> Str("Production")
    [] key = "auth_sandbox_label" -> Str("Sandbox")
    [] key = "auth_custom_label" -> Str("Custom")
    [] OTHER -> Str(key)

orgTypes ==
  [project |-> [label |-> localize("auth_project_label")],
   production |-> [label |-> localize("auth_prod_label")],
   sandbox |-> [label |-> localize("auth_sandbox_label")],
   custom |-> [label |-> localize("auth_custom_label")]]

\* /https?:\/\/(.*)/.test(url): unanchored, so a match may start anywhere
RegexTest(url) ==
  \E i \in 1..Len(url) :
    /\ url[i] = "http"
    /\ \/ i + 1 <= Len(url) /\ url[i + 1] = "://"
       \/ i + 2 <= Len(url) /\ url[i + 1] = "s" /\ url[i + 2] = "://"

validateUrl(url) ==
  IF RegexTest(url) THEN null ELSE localize("auth_invalid_url")

\* ------------------------------------------------- the workspace on disk
\* sfdx-project.json as getProjectUrl sees it
ProjectUrls ==
  {undefined, <<>>, <<"http", "s", "://", "my.domain">>, Str("login.salesforce.com")}
ProjectFiles ==
  {[kind |-> "noRoot", sfdcLoginUrl |-> undefined],
   [kind |-> "noFile", sfdcLoginUrl |-> undefined],
   [kind |-> "badJson", sfdcLoginUrl |-> undefined]}
  \cup {[kind |-> "json", sfdcLoginUrl |-> u] : u \in ProjectUrls}

\* getProjectUrl: JSON.parse throws on a file that is not JSON
getProjectUrlThrows(file) == file.kind = "badJson"
getProjectUrl(file) ==
  IF file.kind = "json" THEN file.sfdcLoginUrl ELSE undefined

getQuickPickItems(file) ==
  LET items == <<orgTypes.production.label, orgTypes.sandbox.label, orgTypes.custom.label>>
  IN IF Truthy(getProjectUrl(file)) THEN <<orgTypes.project.label>> \o items ELSE items

\* ------------------------------------------------------ command builders
\* SfdxCommandBuilder: an argument list plus description and log name
SfdxCommandBuilder ==
  [command |-> Str("sfdx"), args |-> <<>>, description |-> <<>>, logName |-> <<>>]
withDescription(b, d) == [b EXCEPT !.description = d]
withArg(b, a) == [b EXCEPT !.args = Append(@, a)]
withFlag(b, name, value) == [b EXCEPT !.args = @ \o <<name, value>>]
withJson(b) == [b EXCEPT !.args = @ \o <<Str("--json"), Str("--loglevel"), Str("fatal")>>]
withLogName(b, n) == [b EXCEPT !.logName = n]
NoCommand == [command |-> <<>>, args |-> <<>>, description |-> <<>>, logName |-> <<>>]

\* Command.toCommand: the command and its arguments joined by single spaces
RECURSIVE JoinArgs(_)
JoinArgs(args) ==
  IF args = <<>> THEN <<>> ELSE <<" ">> \o Head(args) \o JoinArgs(Tail(args))
toCommand(c) == c.command \o JoinArgs(c.args)

\* slip: the values of the two flags are exchanged
ForceAuthWebLoginExecutor_buildSwapped(data) ==
  withLogName(
    withArg(
      withFlag(
        withFlag(
          withArg(
            withDescription(SfdxCommandBuilder,
                            localize("force_auth_web_login_authorize_org_text")),
            Str("force:auth:web:login")),
          Str("--setalias"), data.loginUrl),
        Str("--instanceurl"), data.alias),
      Str("--setdefaultusername")),
    Str("force_auth_web_login"))

ForceAuthWebLoginExecutor_build(data) ==
  withLogName(
    withArg(
      withFlag(
        withFlag(
          withArg(
            withDescription(SfdxCommandBuilder,
                            localize("force_auth_web_login_authorize_org_text")),
            Str("force:auth:web:login")),
          Str("--setalias"), data.alias),
        Str("--instanceurl"), data.loginUrl),
      Str("--setdefaultusername")),
    Str("force_auth_web_login"))

ForceAuthWebLoginDemoModeExecutor_build(data) ==
  withLogName(
    withJson(
      withArg(
        withArg(
          withFlag(
            withFlag(
              withArg(
                withDescription(SfdxCommandBuilder,
                                localize("force_auth_web_login_authorize_org_text")),
                Str("force:auth:web:login")),
              Str("--setalias"), data.alias),
            Str("--instanceurl"), data.loginUrl),
          Str("--setdefaultusername")),
        Str("--noprompt"))),
    Str("force_auth_web_login_demo_mode"))

\* ------------------------------------------------------------- demo mode
isDemoMode(env) == env = "DEMO"
\* slip: the two executors are exchanged
createExecutorInverted(env) ==
  IF isDemoMode(env) THEN "ForceAuthWebLoginExecutor"
  ELSE "ForceAuthWebLoginDemoModeExecutor"
createExecutor(env) ==
  IF isDemoMode(env) THEN "ForceAuthWebLoginDemoModeExecutor"
  ELSE "ForceAuthWebLoginExecutor"

\* what the spawned CLI can leave behind: an exit status, its standard
\* output (JSON or not, for a production org or not) and its error output
Stdouts == [json : BOOLEAN, prod : BOOLEAN]
Outcomes ==
  {[exit |-> "ok", stdout |-> o, error |-> <<>>] : o \in Stdouts}
  \cup {[exit |-> e, stdout |-> [json |-> FALSE, prod |-> FALSE], error |-> Str(e)] :
          e \in {"failed", "cancelled"}}
NoOutcome == [exit |-> "none", stdout |-> [json |-> FALSE, prod |-> FALSE], error |-> <<>>]
JsonParseThrows(stdout) == ~stdout.json
JsonParse(stdout) == [isProd |-> stdout.prod]
isProdOrg(parsed) == parsed.isProd
SyntaxError == Str("SyntaxError")
LogoutError == Str("LogoutError")
NotifyError == Str("NotifyError")

\* ------------------------------------------------------------------ state
VARIABLES
  sfdxEnv,        \* process.env.SFDX_ENV
  projectFile,    \* the workspace and its sfdx-project.json
  window,         \* "vscode": the editor's window; "stub": the test doubles
  pc,             \* where the commandlet run stands
  executor,       \* the executor the commandlet was created with
  demoAtCreation, \* isDemoMode() when the commandlet was created
  steps,          \* the steps the run has taken, in order
  quickPickItems, \* gather's local variable
  loginUrl,       \* gather's local variable
  shown,          \* the prompts shown so far, in order
  answers,        \* what each shown prompt returned
  response,       \* what gather returned
  command,        \* the command handed to the spawned CLI
  outcome,        \* what getCmdResult settled with
  followUps,      \* the follow-ups started by the demo executor
  followUpState,  \* "none", "running", "finished" or "threw"
  promise         \* the promise run (and execute) returned

vars == <<sfdxEnv, projectFile, window, pc, executor, demoAtCreation, steps,
          quickPickItems, loginUrl, shown, answers, response, command, outcome,
          followUps, followUpState, promise>>

env == <<sfdxEnv, projectFile, window>>
runVars == <<executor, demoAtCreation>>
gatherVars == <<quickPickItems, loginUrl, shown, answers, response>>
execVars == <<command, outcome, followUps, followUpState>>

NoData == [alias |-> undefined, loginUrl |-> undefined]
NoResponse == [type |-> "NONE", data |-> NoData]
CancelResponse == [type |-> "CANCEL", data |-> NoData]
ContinueResponse(data) == [type |-> "CONTINUE", data |-> data]
Pending == [state |-> "pending", error |-> <<>>]
Resolved == [state |-> "resolved", error |-> <<>>]
Rejected(err) == [state |-> "rejected", error |-> err]

Init ==
  /\ sfdxEnv \in {"", "DEMO"}
  /\ projectFile \in ProjectFiles
  /\ window \in {"vscode", "stub"}
  /\ pc = "idle"
  /\ executor = "none"
  /\ demoAtCreation = FALSE
  /\ steps = <<>>
  /\ quickPickItems = <<>>
  /\ loginUrl = undefined
  /\ shown = <<>>
  /\ answers = <<>>
  /\ response = NoResponse
  /\ command = NoCommand
  /\ outcome = NoOutcome
  /\ followUps = <<>>
  /\ followUpState = "none"
  /\ promise = Pending

\* --------------------------------------------------------- environment
\* the user or another process changes SFDX_ENV
SetEnv ==
  /\ \E e \in {"", "DEMO"} : e # sfdxEnv /\ sfdxEnv' = e
  /\ UNCHANGED <<projectFile, window, pc, steps, promise>>
  /\ UNCHANGED runVars
  /\ UNCHANGED gatherVars
  /\ UNCHANGED execVars

\* sfdx-project.json is edited, created or removed
EditProjectFile ==
  /\ \E f \in ProjectFiles : f # projectFile /\ projectFile' = f
  /\ UNCHANGED <<sfdxEnv, window, pc, steps, promise>>
  /\ UNCHANGED runVars
  /\ UNCHANGED gatherVars
  /\ UNCHANGED execVars

\* vscode.window.showInputBox: undefined when dismissed; the editor accepts
\* a value only when validateInput returns null, the test double returns
\* whatever it was told to
showInputBox(validated, candidates) ==
  {undefined} \cup
  {s \in candidates : (window = "vscode" /\ validated) => validateUrl(s) = null}

\* vscode.window.showQuickPick: one of the items, or undefined
showQuickPick(items) == {undefined} \cup {items[i] : i \in 1..Len(items)}

\* ------------------------------------------------------- forceAuthWebLogin
\* forceAuthWebLogin: the commandlet is created with createExecutor()
forceAuthWebLogin ==
  /\ pc \in {"idle", "done"}
  /\ executor' = createExecutor(sfdxEnv)
  /\ demoAtCreation' = isDemoMode(sfdxEnv)
  /\ pc' = "check"
  /\ steps' = <<>>
  /\ quickPickItems' = <<>>
  /\ loginUrl' = undefined
  /\ shown' = <<>>
  /\ answers' = <<>>
  /\ response' = NoResponse
  /\ command' = NoCommand
  /\ outcome' = NoOutcome
  /\ followUps' = <<>>
  /\ followUpState' = "none"
  /\ promise' = Pending
  /\ UNCHANGED env

\* SfdxWorkspaceChecker.check: an SFDX project must be open
SfdxWorkspaceChecker_check(file) == file.kind \in {"json", "badJson"}

\* SfdxCommandlet.run, up to the first prompt of gather: the precondition
\* check, then gather's getQuickPickItems and showQuickPick
Check ==
  /\ pc = "check"
  /\ IF ~SfdxWorkspaceChecker_check(projectFile)
       THEN /\ pc' = "done"
            /\ steps' = Append(steps, "check")
            /\ promise' = Resolved
            /\ UNCHANGED <<quickPickItems, shown>>
       ELSE /\ steps' = steps \o <<"check", "gather">>
            /\ IF getProjectUrlThrows(projectFile)
                 THEN /\ pc' = "done"
                      /\ promise' = Rejected(SyntaxError)
                      /\ UNCHANGED <<quickPickItems, shown>>
                 ELSE /\ pc' = "quickPick"
                      /\ quickPickItems' = getQuickPickItems(projectFile)
                      /\ shown' = Append(shown, "quickPick")
                      /\ UNCHANGED promise
  /\ UNCHANGED <<loginUrl, answers, response>>
  /\ UNCHANGED runVars
  /\ UNCHANGED execVars
  /\ UNCHANGED env

\* slip: a dismissed prompt is not noticed
isDismissedNever(v) == FALSE
\* gather: a prompt that returned undefined was dismissed
isDismissed(v) == v = undefined
\* gather: only the Custom item asks for a URL
asksForUrl(orgType) == orgType = orgTypes.custom.label
\* slip: the label is compared in lower case
orgTypeUrlLowerCase(orgType) ==
  IF orgType = Str("sandbox") THEN SANDBOX_URL ELSE PRODUCTION_URL
\* gather: the login URL of the Production and Sandbox items
orgTypeUrl(orgType) == IF orgType = Str("Sandbox") THEN SANDBOX_URL ELSE PRODUCTION_URL
\* slip: the URL default is forgotten
gatherDataRawUrl(alias, url) ==
  [alias |-> Or(alias, DEFAULT_ALIAS), loginUrl |-> url]
\* slip: the alias default is forgotten
gatherDataRawAlias(alias, url) ==
  [alias |-> alias, loginUrl |-> Or(url, PRODUCTION_URL)]
\* gather: the bundle of the CONTINUE response
gatherData(alias, url) ==
  [alias |-> Or(alias, DEFAULT_ALIAS), loginUrl |-> Or(url, PRODUCTION_URL)]

\* gather, from the quick pick's answer to the next prompt or the return
QuickPickAnswer ==
  /\ pc = "quickPick"
  /\ \E selection \in showQuickPick(quickPickItems) :
       /\ answers' = Append(answers, selection)
       /\ IF ~Truthy(selection)
            THEN /\ response' = CancelResponse
                 /\ pc' = "gathered"
                 /\ UNCHANGED <<loginUrl, shown, promise>>
            ELSE LET orgType == selection
                 IN IF asksForUrl(orgType)
                      THEN /\ pc' = "urlBox"
                           /\ shown' = Append(shown, "inputBox:url")
                           /\ UNCHANGED <<loginUrl, response, promise>>
                      ELSE IF orgType = orgTypes.project.label
                        THEN IF getProjectUrlThrows(projectFile)
                               THEN /\ pc' = "done"
                                    /\ promise' = Rejected(SyntaxError)
                                    /\ UNCHANGED <<loginUrl, shown, response>>
                               ELSE /\ loginUrl' = getProjectUrl(projectFile)
                                    /\ pc' = "aliasBox"
                                    /\ shown' = Append(shown, "inputBox:alias")
                                    /\ UNCHANGED <<response, promise>>
                        ELSE /\ loginUrl' = orgTypeUrl(orgType)
                             /\ pc' = "aliasBox"
                             /\ shown' = Append(shown, "inputBox:alias")
                             /\ UNCHANGED <<response, promise>>
  /\ UNCHANGED <<steps, quickPickItems>>
  /\ UNCHANGED runVars
  /\ UNCHANGED execVars
  /\ UNCHANGED env

\* gather, from the custom-URL input box's answer to the alias prompt
UrlAnswer ==
  /\ pc = "urlBox"
  /\ \E url \in showInputBox(TRUE, UrlInputs) :
       /\ answers' = Append(answers, url)
       /\ loginUrl' = url
       /\ IF isDismissed(url)
            THEN /\ response' = CancelResponse
                 /\ pc' = "gathered"
                 /\ UNCHANGED shown
            ELSE /\ pc' = "aliasBox"
                 /\ shown' = Append(shown, "inputBox:alias")
                 /\ UNCHANGED response
  /\ UNCHANGED <<steps, quickPickItems, promise>>
  /\ UNCHANGED runVars
  /\ UNCHANGED execVars
  /\ UNCHANGED env

\* gather, from the alias input box's answer to the return
AliasAnswer ==
  /\ pc = "aliasBox"
  /\ \E alias \in showInputBox(FALSE, AliasInputs) :
       /\ answers' = Append(answers, alias)
       /\ response' = IF isDismissed(alias) THEN CancelResponse
                      ELSE ContinueResponse(gatherData(alias, loginUrl))
  /\ pc' = "gathered"
  /\ UNCHANGED <<steps, quickPickItems, loginUrl, shown, promise>>
  /\ UNCHANGED runVars
  /\ UNCHANGED execVars
  /\ UNCHANGED env

\* ------------------------------------------------------------- execution
\* SfdxCommandlet.run: a CANCEL response ends the run
Cancelled ==
  /\ pc = "gathered"
  /\ response.type = "CANCEL"
  /\ pc' = "done"
  /\ promise' = Resolved
  /\ UNCHANGED steps
  /\ UNCHANGED runVars
  /\ UNCHANGED gatherVars
  /\ UNCHANGED execVars
  /\ UNCHANGED env

\* SfdxCommandletExecutor.execute: spawns the built command and returns
ExecutePlain ==
  /\ pc = "gathered"
  /\ response.type = "CONTINUE"
  /\ executor = "ForceAuthWebLoginExecutor"
  /\ steps' = Append(steps, "execute")
  /\ command' = ForceAuthWebLoginExecutor_build(response.data)
  /\ pc' = "done"
  /\ promise' = Resolved
  /\ UNCHANGED <<outcome, followUps, followUpState>>
  /\ UNCHANGED runVars
  /\ UNCHANGED gatherVars
  /\ UNCHANGED env

\* ForceAuthDemoModeExecutor.execute, up to the await of getCmdResult
ExecuteDemo ==
  /\ pc = "gathered"
  /\ response.type = "CONTINUE"
  /\ executor = "ForceAuthWebLoginDemoModeExecutor"
  /\ steps' = Append(steps, "execute")
  /\ command' = ForceAuthWebLoginDemoModeExecutor_build(response.data)
  /\ pc' = "awaitResult"
  /\ UNCHANGED <<outcome, followUps, followUpState, promise>>
  /\ UNCHANGED runVars
  /\ UNCHANGED gatherVars
  /\ UNCHANGED env

\* slip: the branches are exchanged
followUpForInverted(result) ==
  IF isProdOrg(JsonParse(result)) THEN "showSuccessfulExecution"
  ELSE "promptLogOutForProdOrg"
\* execute: the branch on the parsed result
followUpFor(result) ==
  IF isProdOrg(JsonParse(result)) THEN "promptLogOutForProdOrg"
  ELSE "showSuccessfulExecution"
\* slip: the catch clause swallows the error
executeCatchSwallow(err) == Resolved
\* execute: the catch clause
executeCatch(err) == Rejected(err)

\* ForceAuthDemoModeExecutor.execute, from the settling of getCmdResult to
\* the await of the follow-up, or to the catch clause
CmdResult ==
  /\ pc = "awaitResult"
  /\ \E o \in Outcomes :
       /\ outcome' = o
       /\ IF o.exit # "ok"
            THEN /\ promise' = executeCatch(o.error)
                 /\ pc' = "done"
                 /\ UNCHANGED <<followUps, followUpState>>
            ELSE IF JsonParseThrows(o.stdout)
              THEN /\ promise' = executeCatch(SyntaxError)
                   /\ pc' = "done"
                   /\ UNCHANGED <<followUps, followUpState>>
              ELSE /\ followUps' = Append(followUps, followUpFor(o.stdout))
                   /\ followUpState' = "running"
                   /\ pc' = "followUp"
                   /\ UNCHANGED promise
  /\ UNCHANGED <<steps, command>>
  /\ UNCHANGED runVars
  /\ UNCHANGED gatherVars
  /\ UNCHANGED env

\* the error a follow-up fails with
followUpError(f) == IF f = "promptLogOutForProdOrg" THEN LogoutError ELSE NotifyError

\* ForceAuthDemoModeExecutor.execute, from the settling of the follow-up to
\* the return
FollowUpSettles ==
  /\ pc = "followUp"
  /\ \E ok \in BOOLEAN :
       /\ followUpState' = IF ok THEN "finished" ELSE "threw"
       /\ promise' = IF ok THEN Resolved
                     ELSE executeCatch(followUpError(followUps[Len(followUps)]))
  /\ pc' = "done"
  /\ UNCHANGED <<steps, command, outcome, followUps>>
  /\ UNCHANGED runVars
  /\ UNCHANGED gatherVars
  /\ UNCHANGED env

Next ==
  \/ SetEnv
  \/ EditProjectFile
  \/ forceAuthWebLogin
  \/ Check
  \/ QuickPickAnswer
  \/ UrlAnswer
  \/ AliasAnswer
  \/ Cancelled
  \/ ExecutePlain
  \/ ExecuteDemo
  \/ CmdResult
  \/ FollowUpSettles

Spec == Init /\ [][Next]_vars

\* the same program with the editor's own window only
InitVscode == Init /\ window = "vscode"
SpecVscode == InitVscode /\ [][Next]_vars

\* ================================================================ claims
Custom == orgTypes.custom.label
Production == orgTypes.production.label
Sandbox == orgTypes.sandbox.label
Returned == response.type # "NONE"
Continued == response.type = "CONTINUE"
InputBoxes == Len(SelectSeq(shown, LAMBDA p : p # "quickPick"))
Spawned == command # NoCommand
DemoRun == executor = "ForceAuthWebLoginDemoModeExecutor"

\* C1: gather shows the quick pick, then the custom-URL input box only if
\* Custom was chosen, then the alias input box; a dismissed prompt is the
\* last one shown and makes gather return CANCEL; gather returns CONTINUE
\* exactly when no shown prompt was dismissed, after one input box for a
\* choice other than Custom and at most two for Custom.
C1_PromptOrder ==
  /\ shown \in {<<>>, <<"quickPick">>, <<"quickPick", "inputBox:url">>,
                <<"quickPick", "inputBox:alias">>,
                <<"quickPick", "inputBox:url", "inputBox:alias">>}
  /\ Len(answers) <= Len(shown)
  /\ Len(shown) >= 2 =>
       /\ Len(answers) >= 1
       /\ (shown[2] = "inputBox:url") <=> (answers[1] = Custom)
  /\ \A i \in 1..Len(answers) :
       answers[i] = undefined => /\ Len(shown) = i
                                 /\ response.type = "CANCEL"
  /\ Returned =>
       /\ Len(answers) = Len(shown)
       /\ Continued <=> (\A i \in 1..Len(answers) : answers[i] # undefined)
  /\ Continued =>
       /\ shown[Len(shown)] = "inputBox:alias"
       /\ InputBoxes = IF answers[1] = Custom THEN 2 ELSE 1
  /\ InputBoxes <= 2
  /\ (Len(answers) >= 1 /\ answers[1] # Custom) => InputBoxes <= 1

\* the custom-URL input box was dismissed: CANCEL, and no alias prompt
C1_Witness ==
  /\ response.type = "CANCEL"
  /\ shown = <<"quickPick", "inputBox:url">>
  /\ answers = <<Custom, undefined>>

\* C2: every CONTINUE response carries a non-empty alias and a non-empty
\* loginUrl that validateUrl accepts.
C2_ValidatedBundle ==
  Continued =>
    /\ Truthy(response.data.alias)
    /\ Truthy(response.data.loginUrl)
    /\ validateUrl(response.data.loginUrl) = null

\* C3: Production with an undismissed alias prompt returns CONTINUE with
\* PRODUCTION_URL, and Sandbox returns CONTINUE with SANDBOX_URL.
C3_OrgTypeUrl ==
  (Len(answers) = 2 /\ answers[1] \in {Production, Sandbox} /\ answers[2] # undefined) =>
    /\ Continued
    /\ response.data.loginUrl = IF answers[1] = Production THEN PRODUCTION_URL
                                ELSE SANDBOX_URL

C3_Witness ==
  /\ Continued
  /\ answers[1] = Sandbox
  /\ response.data.loginUrl = SANDBOX_URL

\* C4: Custom with neither input box dismissed returns CONTINUE with the
\* entered URL, or with PRODUCTION_URL when the entered URL is empty.
C4_CustomUrl ==
  (Len(answers) = 3 /\ answers[1] = Custom /\ answers[2] # undefined
     /\ answers[3] # undefined) =>
    /\ Continued
    /\ response.data.loginUrl = IF answers[2] = <<>> THEN PRODUCTION_URL ELSE answers[2]

C4_Witness ==
  /\ Continued
  /\ answers[1] = Custom
  /\ answers[2] = <<>>
  /\ response.data.loginUrl = PRODUCTION_URL

\* C5: the alias of a CONTINUE response is the alias typed, or DEFAULT_ALIAS
\* when the empty string was submitted; an undefined alias never continues.
C5_Alias ==
  /\ Continued =>
       LET typed == answers[Len(answers)]
       IN /\ typed # undefined
          /\ response.data.alias = IF typed = <<>> THEN DEFAULT_ALIAS ELSE typed
  /\ (pc = "gathered" /\ shown[Len(shown)] = "inputBox:alias"
        /\ answers[Len(answers)] = undefined) => ~Continued

C5_Witness ==
  /\ Continued
  /\ answers[Len(answers)] = <<>>
  /\ response.data.alias = DEFAULT_ALIAS

PlainCommandLine(data) ==
  <<"sfdx", " ", "force:auth:web:login", " ", "--setalias", " ">> \o data.alias
    \o <<" ", "--instanceurl", " ">> \o data.loginUrl
    \o <<" ", "--setdefaultusername">>
DemoSuffix == <<" ", "--noprompt", " ", "--json", " ", "--loglevel", " ", "fatal">>

\* C6: the command built from a bundle is 'sfdx force:auth:web:login
\* --setalias <alias> --instanceurl <loginUrl> --setdefaultusername', with
\* ' --noprompt --json --loglevel fatal' appended by the demo-mode executor;
\* both have the same description and carry the bundle's alias and loginUrl
\* unchanged as the values of their flags.
C6_Build ==
  Spawned =>
    /\ toCommand(command) =
         IF DemoRun THEN PlainCommandLine(response.data) \o DemoSuffix
         ELSE PlainCommandLine(response.data)
    /\ command.description = Str("force_auth_web_login_authorize_org_text")
    /\ command.args[2] = Str("--setalias")
    /\ command.args[3] = response.data.alias
    /\ command.args[4] = Str("--instanceurl")
    /\ command.args[5] = response.data.loginUrl

C6_Witness ==
  /\ Spawned
  /\ ~DemoRun
  /\ response.data.alias = <<"my", "Org">>

\* C7: a run checks the workspace, then gathers, then executes; the CLI is
\* spawned only after the check passed and gather returned CONTINUE, never
\* after a failed check or a CANCEL; the demo-mode executor is used exactly
\* when isDemoMode() held when the commandlet was created.
C7_Sequence ==
  /\ steps \in {<<>>, <<"check">>, <<"check", "gather">>,
                <<"check", "gather", "execute">>}
  /\ Spawned <=> steps = <<"check", "gather", "execute">>
  /\ Spawned => Continued
  /\ (response.type = "CANCEL" \/ (pc = "done" /\ steps = <<"check">>)) => ~Spawned
  /\ Spawned =>
       (command.logName = Str("force_auth_web_login_demo_mode")) <=> demoAtCreation

\* the CLI was spawned by the demo-mode executor although SFDX_ENV has since
\* been changed
C7_Witness ==
  /\ Spawned
  /\ command.logName = Str("force_auth_web_login_demo_mode")
  /\ sfdxEnv = ""

\* C8: after the command's result was obtained and parsed, exactly one
\* follow-up runs: the log-out prompt for a production org, the success
\* notification otherwise; execute resolves only after it has finished.
C8_FollowUp ==
  /\ Len(followUps) <= 1
  /\ followUps # <<>> =>
       /\ outcome.exit = "ok"
       /\ ~JsonParseThrows(outcome.stdout)
       /\ followUps[1] = IF outcome.stdout.prod THEN "promptLogOutForProdOrg"
                         ELSE "showSuccessfulExecution"
  /\ (outcome.exit = "ok" /\ ~JsonParseThrows(outcome.stdout)) => Len(followUps) = 1
  /\ (DemoRun /\ Spawned /\ promise.state = "resolved") =>
       /\ Len(followUps) = 1
       /\ followUpState = "finished"

C8_Witness ==
  /\ DemoRun
  /\ promise.state = "resolved"
  /\ followUps = <<"promptLogOutForProdOrg">>
  /\ followUpState = "finished"

\* C9: when the command's result cannot be obtained, its output is not
\* JSON, or the log-out commandlet throws, execute rejects with that error;
\* in the first two cases no follow-up is shown.
C9_Rejects ==
  /\ outcome.exit \in {"failed", "cancelled"} =>
       /\ promise = Rejected(outcome.error)
       /\ followUps = <<>>
  /\ (outcome.exit = "ok" /\ JsonParseThrows(outcome.stdout)) =>
       /\ promise = Rejected(SyntaxError)
       /\ followUps = <<>>
  /\ (followUpState = "threw" /\ followUps = <<"promptLogOutForProdOrg">>) =>
       promise = Rejected(LogoutError)

C9_Witness ==
  /\ followUpState = "threw"
  /\ followUps = <<"promptLogOutForProdOrg">>
  /\ promise = Rejected(LogoutError)
====
